---- MODULE Spec2Model ----
(***************************************************************************)
(* A model of the CSML engine core:                                        *)
(*   - the integer primitive's binary operators   (data/primitive/int.rs)  *)
(*   - identifier / builder-path resolution and the condition evaluator    *)
(*     (interpreter/ast_interpreter.rs)                                    *)
(*   - the block interpreter match_block, as a machine of call frames      *)
(*     (interpreter/ast_interpreter.rs)                                    *)
(*   - the generic component generator, as a machine of get_object calls   *)
(*     (interpreter/variable_handler/gen_generic_component.rs)             *)
(* Six specifications share the variables:                                 *)
(*   SpecInt   applies one integer operator to a pair of operands          *)
(*   SpecExpr  resolves one expression / evaluates one condition           *)
(*   Spec      interprets one block, statement by statement                *)
(*   SpecNest  interprets one block of nested ifs, gotos and remembers     *)
(*   SpecComp  generates one component from a schema                       *)
(*   SpecCompFair  the same, run to its end                                *)
(***************************************************************************)
EXTENDS Integers, Sequences, FiniteSets, TLC

VARIABLES
    ast,        \* the expression tree the parser produced: node id -> node
    lhs,        \* SpecInt: self.value of the left PrimitiveInt
    rhs,        \* SpecInt: the right operand [kind, value] (other: &dyn Primitive)
    arith,      \* SpecInt: what the operator call produced
    memory,     \* AstInterpreter.memory: metadata / current / past multimaps
    event,      \* AstInterpreter.event: Option<Event>
    expr,       \* SpecExpr: the expression (node id) handed to the function
    resolved,   \* SpecExpr: outcome of get_var_from_ident(expr)
    condition,  \* SpecExpr: outcome of valid_condition(expr)
    actions,    \* Spec: the statement sequence given to match_block
    stack,      \* Spec: the match_block activations, innermost last
    ret,        \* Spec: what the outermost match_block returned
    evald,      \* Spec: history of the statements evaluated, <<depth, index, node>>
    header,     \* SpecComp: the schema given to gen_generic_component
    key_iter,   \* SpecComp: the keys the loop of gen_generic_component has left
    hashmap,    \* SpecComp: the fields generated so far, key -> value
    hashset,    \* SpecComp: the visited set of the current top-level field
    calls,      \* SpecComp: the get_object activations, innermost last
    outcome     \* SpecComp: what gen_generic_component ended with

\* the variables of the component generator, and those of the interpreter
CompVars == <<header, key_iter, hashmap, hashset, calls, outcome>>
InterpVars == <<ast, lhs, rhs, arith, memory, event, expr, resolved, condition,
                actions, stack, ret, evald>>
vars == <<InterpVars, CompVars>>

(***************************************************************************)
(* Bounds of the model                                                     *)
(***************************************************************************)
\* Width in bits of the modelled two's-complement integer.  The program's
\* PrimitiveInt.value is an i64; the operators are width-generic, and the
\* model keeps MIN, MAX, -1, 0 and the overflow cases at a width TLC can
\* enumerate.
IntBits == 4
\* Longest top-level block handed to match_block.
MaxBlockLen == 3
\* Most values written under one key of one memory scope.
MaxVals == 2

\* Most rules in the default_value list of a schema field.
MaxRules == 2

(***************************************************************************)
(* serde_json::Value, and the state of an idle component generator        *)
(***************************************************************************)
\* A value is [k, b, n, s, a, o]: k the variant, and the bool, number,
\* string, array (of strings) or object (key -> string) it carries.
NoEntries == [key \in {} |-> ""]
Json(k, b, n, s, a, o) == [k |-> k, b |-> b, n |-> n, s |-> s, a |-> a, o |-> o]
JNull == Json("Null", FALSE, 0, "", <<>>, NoEntries)
JBool(b) == Json("Bool", b, 0, "", <<>>, NoEntries)
JNumber(n) == Json("Number", FALSE, n, "", <<>>, NoEntries)
JString(s) == Json("String", FALSE, 0, s, <<>>, NoEntries)
JArray(a) == Json("Array", FALSE, 0, "", a, NoEntries)
JObject(o) == Json("Object", FALSE, 0, "", <<>>, o)
\* Option::None of a lookup in a JSON object
JAbsent == Json("Absent", FALSE, 0, "", <<>>, NoEntries)

NotGenerated == [st |-> "none", fault |-> ""]
CompIdle ==
    /\ header = NoEntries
    /\ key_iter = <<>>
    /\ hashmap = NoEntries
    /\ hashset = {}
    /\ calls = <<>>
    /\ outcome = NotGenerated

(***************************************************************************)
(* PrimitiveInt: the binary operators                                      *)
(***************************************************************************)
RECURSIVE Pow2(_)
Pow2(n) == IF n = 0 THEN 1 ELSE 2 * Pow2(n - 1)

MinInt == -Pow2(IntBits - 1)
MaxInt == Pow2(IntBits - 1) - 1
IntRange == MinInt..MaxInt

Abs(v) == IF v < 0 THEN -v ELSE v

\* Rust's `/` on integers truncates toward zero; `%` takes the dividend's sign.
QuotT(a, b) ==
    IF (a < 0) = (b < 0) THEN Abs(a) \div Abs(b) ELSE -(Abs(a) \div Abs(b))
RemT(a, b) == a - b * QuotT(a, b)

\* Two's-complement wrap-around of a mathematical result (release build).
Wrap(v) == ((v - MinInt) % Pow2(IntBits)) + MinInt

\* Two's-complement bitwise operators, bit by bit on the unsigned image.
ToUnsigned(v) == IF v < 0 THEN v + Pow2(IntBits) ELSE v
FromUnsigned(u) == IF u > MaxInt THEN u - Pow2(IntBits) ELSE u
RECURSIVE BitsAnd(_, _, _)
BitsAnd(u, v, n) ==
    IF n = 0 THEN 0
    ELSE (IF u % 2 = 1 /\ v % 2 = 1 THEN 1 ELSE 0)
         + 2 * BitsAnd(u \div 2, v \div 2, n - 1)
RECURSIVE BitsOr(_, _, _)
BitsOr(u, v, n) ==
    IF n = 0 THEN 0
    ELSE (IF u % 2 = 1 \/ v % 2 = 1 THEN 1 ELSE 0)
         + 2 * BitsOr(u \div 2, v \div 2, n - 1)

\* Outcomes of an operator call: Ok(Box<PrimitiveInt>), Ok(Box<PrimitiveFloat>)
\* (the quotient num/den), Err(ErrorInfo), or a panic that unwinds the process.
OkInt(v) == [st |-> "ok", kind |-> "Int", num |-> v, den |-> 1, msg |-> ""]
OkFloat(n, d) == [st |-> "ok", kind |-> "Float", num |-> n, den |-> d, msg |-> ""]
ErrInfo(m) == [st |-> "err", kind |-> "", num |-> 0, den |-> 1, msg |-> m]
IntPanic(m) == [st |-> "panic", kind |-> "", num |-> 0, den |-> 1, msg |-> m]
NotCalled == [st |-> "none", kind |-> "", num |-> 0, den |-> 1, msg |-> ""]
NotApplied == [op |-> "", res |-> NotCalled]

\* An i64 `+`, `-`, `*` whose result leaves the range panics in a build with
\* overflow checks and wraps in a build without them.
Checked(v) ==
    IF v \in IntRange THEN {OkInt(v)}
    ELSE {IntPanic("arithmetic overflow"), OkInt(Wrap(v))}

\* other.as_any().downcast_ref::<Self>()
IsInt(other) == other.kind = "Int"

\* tools::check_division_by_zero_i64(lhs, rhs)
check_division_by_zero_i64(a, b) == b = 0

do_add(a, other) ==
    IF IsInt(other) THEN Checked(a + other.value)
    ELSE {ErrInfo("[!] Add: Illegal operation")}

do_sub(a, other) ==
    IF IsInt(other) THEN Checked(a - other.value)
    ELSE {ErrInfo("[!] Sub: Illegal operation")}

do_div(a, other) ==
    IF IsInt(other) THEN
        IF check_division_by_zero_i64(a, other.value)
        THEN {ErrInfo("DivisionByZero")}
        ELSE IF a = MinInt /\ other.value = -1
        THEN {IntPanic("attempt to calculate the remainder with overflow")}
        ELSE IF RemT(a, other.value) # 0
        THEN {OkFloat(a, other.value)}
        ELSE {OkInt(QuotT(a, other.value))}
    ELSE {ErrInfo("[!] Div: Illegal operation")}

do_mul(a, other) ==
    IF IsInt(other) THEN Checked(a * other.value)
    ELSE {ErrInfo("[!] Mul: Illegal operation")}

do_rem(a, other) ==
    IF IsInt(other) THEN
        IF other.value = 0
        THEN {IntPanic("attempt to calculate the remainder with a divisor of zero")}
        ELSE IF a = MinInt /\ other.value = -1
        THEN {IntPanic("attempt to calculate the remainder with overflow")}
        ELSE {OkInt(RemT(a, other.value))}
    ELSE {ErrInfo("[!] Rem: Illegal operation")}

do_bitand(a, other) ==
    IF IsInt(other)
    THEN {OkInt(FromUnsigned(BitsAnd(ToUnsigned(a), ToUnsigned(other.value), IntBits)))}
    ELSE {ErrInfo("[!] BitAnd: Illegal operation")}

do_bitor(a, other) ==
    IF IsInt(other)
    THEN {OkInt(FromUnsigned(BitsOr(ToUnsigned(a), ToUnsigned(other.value), IntBits)))}
    ELSE {ErrInfo("[!] BitOr: Illegal operation")}

(***************************************************************************)
(* The expression tree (parser::ast::Expr), as an arena of nodes.          *)
(* A node is [t, s, k, x, y, b]: t the variant, s its string (literal      *)
(* value, identifier, function / builtin / keyword / operator name), k the *)
(* Literal kind, x and y child nodes, b a block or list of child nodes.    *)
(***************************************************************************)
Nd(t, s, k, x, y, b) == [t |-> t, s |-> s, k |-> k, x |-> x, y |-> y, b |-> b]
Empty == Nd("Empty", "", "", 0, 0, <<>>)
LitExpr(kind, val) == Nd("LitExpr", val, kind, 0, 0, <<>>)
IdentExpr(name) == Nd("IdentExpr", name, "", 0, 0, <<>>)
FunctionExpr(name, arg) == Nd("FunctionExpr", name, "", arg, 0, <<>>)
BuilderExpr(elem, exp) == Nd("BuilderExpr", "", "", elem, exp, <<>>)
ComplexLiteral(vec) == Nd("ComplexLiteral", "", "", 0, 0, vec)
InfixExpr(infix, e1, e2) == Nd("InfixExpr", infix, "", e1, e2, <<>>)
Action(builtin, args) == Nd("Action", builtin, "", args, 0, <<>>)
VecExpr(block) == Nd("VecExpr", "", "", 0, 0, block)
Reserved(fun, arg) == Nd("Reserved", fun, "", arg, 0, <<>>)
IfExpr(cond, consequence) == Nd("IfExpr", "", "", cond, 0, consequence)
Goto(step) == Nd("Goto", step, "", 0, 0, <<>>)
Remember(name, e) == Nd("Remember", name, "", e, 0, <<>>)

\* The expressions and statements the model interprets.  In the memories of
\* the model the key "x" may be present and the key "n" never is.
Parsed(i) ==
    CASE i = 0  -> Empty
      \* literals
      [] i = 1  -> LitExpr("String", "m1")
      [] i = 2  -> LitExpr("String", "b")
      [] i = 3  -> LitExpr("Int", "1")
      [] i = 4  -> LitExpr("Bool", "false")
      [] i = 5  -> LitExpr("String", "x")
      [] i = 6  -> LitExpr("String", "n")
      \* identifiers
      [] i = 7  -> IdentExpr("x")
      [] i = 8  -> IdentExpr("n")
      [] i = 9  -> IdentExpr("event")
      [] i = 10 -> IdentExpr("past")
      [] i = 11 -> IdentExpr("memory")
      [] i = 12 -> IdentExpr("metadata")
      \* builder-path functions
      [] i = 13 -> FunctionExpr("get", 5)
      [] i = 14 -> FunctionExpr("first", 5)
      [] i = 15 -> FunctionExpr("get", 6)
      [] i = 16 -> FunctionExpr("first", 6)
      [] i = 17 -> FunctionExpr("all", 5)
      [] i = 18 -> FunctionExpr("get", 3)
      \* builder paths
      [] i = 19 -> BuilderExpr(10, 13)      \* past.get("x")
      [] i = 20 -> BuilderExpr(10, 14)      \* past.first("x")
      [] i = 21 -> BuilderExpr(11, 13)      \* memory.get("x")
      [] i = 22 -> BuilderExpr(11, 14)      \* memory.first("x")
      [] i = 23 -> BuilderExpr(12, 13)      \* metadata.get("x")
      [] i = 24 -> BuilderExpr(12, 14)      \* metadata.first("x")
      [] i = 25 -> BuilderExpr(10, 15)      \* past.get("n")
      [] i = 26 -> BuilderExpr(10, 16)      \* past.first("n")
      [] i = 27 -> BuilderExpr(10, 17)      \* past.all("x")
      [] i = 28 -> BuilderExpr(10, 18)      \* past.get(1)
      [] i = 29 -> BuilderExpr(7, 13)       \* x.get("x")
      \* string-interpolation lists
      [] i = 30 -> ComplexLiteral(<<2, 7>>)
      [] i = 31 -> ComplexLiteral(<<2, 8>>)
      [] i = 32 -> ComplexLiteral(<<3, 4>>)
      \* leaf comparisons
      [] i = 33 -> InfixExpr("Equal", 2, 2)             \* "b" == "b"
      [] i = 34 -> InfixExpr("Equal", 1, 2)             \* "m1" == "b"
      [] i = 35 -> InfixExpr("Equal", 7, 1)             \* x == "m1"
      [] i = 36 -> InfixExpr("Equal", 8, 2)             \* n == "b"
      [] i = 37 -> InfixExpr("Equal", 2, 26)            \* "b" == past.first("n")
      [] i = 38 -> InfixExpr("Equal", 19, 7)            \* past.get("x") == x
      [] i = 39 -> InfixExpr("LessThan", 1, 2)          \* "m1" < "b"
      [] i = 40 -> InfixExpr("GreaterThanEqual", 7, 2)  \* x >= "b"
      [] i = 41 -> InfixExpr("LessThanEqual", 2, 3)     \* "b" <= 1
      [] i = 42 -> InfixExpr("GreaterThan", 3, 3)       \* 1 > 1
      [] i = 43 -> InfixExpr("And", 1, 2)               \* "m1" && "b"
      [] i = 44 -> InfixExpr("Or", 7, 8)                \* x || n
      \* two sub-conditions
      [] i = 45 -> InfixExpr("And", 33, 34)
      [] i = 46 -> InfixExpr("Or", 34, 33)
      [] i = 47 -> InfixExpr("Or", 33, 36)
      [] i = 48 -> InfixExpr("Or", 36, 33)
      [] i = 49 -> InfixExpr("Equal", 34, 34)
      [] i = 50 -> InfixExpr("LessThan", 34, 33)
      \* mixed: a sub-condition and a plain operand
      [] i = 51 -> InfixExpr("Or", 33, 2)               \* (true) || "b"
      [] i = 52 -> InfixExpr("Or", 34, 2)               \* (false) || "b"
      [] i = 53 -> InfixExpr("Or", 36, 2)               \* (n == "b") || "b"
      [] i = 54 -> InfixExpr("Or", 2, 34)               \* "b" || (false)
      [] i = 55 -> InfixExpr("Or", 7, 34)               \* x || (false)
      [] i = 56 -> InfixExpr("Or", 2, 36)               \* "b" || (n == "b")
      [] i = 57 -> InfixExpr("Or", 34, 8)               \* (false) || n
      [] i = 58 -> InfixExpr("Or", 34, 19)              \* (false) || past.get("x")
      [] i = 59 -> InfixExpr("And", 33, 2)              \* (true) && "b"
      [] i = 60 -> InfixExpr("And", 34, 2)              \* (false) && "b"
      [] i = 61 -> InfixExpr("And", 7, 35)              \* x && (x == "m1")
      [] i = 62 -> InfixExpr("And", 33, 19)             \* (true) && past.get("x")
      [] i = 63 -> InfixExpr("And", 8, 33)              \* n && (true)
      [] i = 64 -> InfixExpr("Equal", 33, 2)            \* (true) == "b"
      [] i = 65 -> InfixExpr("Or", 37, 2)               \* (.. past.first("n")) || "b"
      [] i = 66 -> InfixExpr("Or", 0, 2)                \* <empty> || "b"
      \* shapes that are no condition
      [] i = 67 -> VecExpr(<<>>)
      [] i = 68 -> BuilderExpr(11, 15)      \* memory.get("n")
      \* builtin actions
      [] i = 70 -> Action("Text", 2)
      [] i = 71 -> Action("Foo", 2)
      [] i = 72 -> Action("Button", 2)
      [] i = 73 -> Action("OneOf", 2)
      \* say / retry / unknown keyword
      [] i = 80 -> Reserved("say", 2)                   \* say "b"
      [] i = 81 -> Reserved("say", 1)                   \* say "m1"
      [] i = 82 -> Reserved("say", 70)                  \* say Text("b")
      [] i = 83 -> Reserved("say", 71)                  \* say Foo("b")
      [] i = 84 -> Reserved("say", 7)                   \* say x
      [] i = 85 -> Reserved("say", 19)                  \* say past.get("x")
      [] i = 86 -> Reserved("say", 30)                  \* say "b{{x}}"
      [] i = 87 -> Reserved("say", 0)                   \* say <empty>
      [] i = 88 -> Reserved("retry", 2)                 \* retry "b"
      [] i = 89 -> Reserved("foo", 2)                   \* foo "b"
      [] i = 90 -> Reserved("say", 72)                  \* say Button("b")
      [] i = 91 -> Reserved("say", 73)                  \* say OneOf("b")
      [] i = 92 -> Reserved("say", 31)                  \* say "b{{n}}"
      [] i = 93 -> Reserved("say", 68)                  \* say memory.get("n")
      \* nested blocks
      [] i = 100 -> VecExpr(<<141, 142, 81>>)
      [] i = 101 -> VecExpr(<<85, 131, 80>>)
      [] i = 102 -> VecExpr(<<81, 89>>)
      [] i = 103 -> VecExpr(<<81>>)
      \* ask / respond
      [] i = 110 -> Reserved("ask", 100)
      [] i = 111 -> Reserved("respond", 101)
      [] i = 112 -> Reserved("respond", 102)
      [] i = 113 -> Reserved("ask", 2)                  \* ask "b"
      [] i = 114 -> Reserved("ask", 103)
      \* if
      [] i = 120 -> IfExpr(33, <<82, 143, 88>>)         \* if "b" == "b"
      [] i = 121 -> IfExpr(36, <<81>>)                  \* if n == "b"
      [] i = 122 -> IfExpr(33, <<132, 80>>)             \* if "b" == "b" [goto ..]
      [] i = 123 -> IfExpr(33, <<90, 83>>)              \* if "b" == "b" [.. say Foo]
      [] i = 124 -> IfExpr(33, <<114, 80>>)             \* if "b" == "b" [ask ..]
      [] i = 125 -> IfExpr(37, <<81>>)                  \* if "b" == past.first("n")
      [] i = 126 -> IfExpr(67, <<81>>)                  \* if <block>
      [] i = 127 -> IfExpr(53, <<81>>)                  \* if (n == "b") || "b"
      [] i = 128 -> IfExpr(33, <<122, 81>>)             \* if .. [if .. [goto ..] ..]
      [] i = 129 -> IfExpr(33, <<92>>)                  \* if "b" == "b" [say "b{{n}}"]
      \* goto
      [] i = 130 -> Goto("next")
      [] i = 131 -> Goto("sub")
      [] i = 132 -> Goto("in")
      \* remember
      [] i = 140 -> Remember("v", 2)                    \* remember v = "b"
      [] i = 141 -> Remember("a", 7)                    \* remember a = x
      [] i = 142 -> Remember("c", 30)                   \* remember c = "b{{x}}"
      [] i = 143 -> Remember("v", 20)                   \* remember v = past.first("x")
      [] i = 144 -> Remember("v", 3)                    \* remember v = 1
      [] i = 145 -> Remember("v", 8)                    \* remember v = n
      [] i = 146 -> Remember("v", 33)                   \* remember v = ("b" == "b")
      [] i = 147 -> Remember("v", 32)                   \* remember v = "1false"
      [] i = 148 -> Remember("n", 2)                    \* remember n = "b"
      [] i = 149 -> Remember("x", 2)                    \* remember x = "b"
      [] OTHER  -> Empty

\* The expressions SpecExpr resolves and evaluates.
ExprIds == 0..67
NodeIds == 0..149
Tree == [i \in NodeIds |-> Parsed(i)]

\* the node behind a reference (&Expr, Box<Expr>)
Node(i) == ast[i]

(***************************************************************************)
(* Literal, Memory, Event                                                  *)
(***************************************************************************)
Literal(kind, val) == [kind |-> kind, val |-> val]
StringLiteral(s) == Literal("String", s)
NoLit == Literal("", "")
\* Expr::LitExpr(lit): the Literal a literal node carries
LitOf(n) == Literal(n.k, n.s)

\* Result<Literal>, or the unwinding of a panic
Ok(l) == [st |-> "ok", lit |-> l]
Err == [st |-> "err", lit |-> NoLit]
Panic == [st |-> "panic", lit |-> NoLit]
NotResolved == [st |-> "none", lit |-> NoLit]

\* Option<&MemoryType>, or the unwinding of a panic
Some(v) == [st |-> "some", value |-> v]
None == [st |-> "none", value |-> ""]
Unwrap == [st |-> "panic", value |-> ""]

\* A memory scope is a MultiMap<String, MemoryType>: each key holds the values
\* inserted under it, oldest first; a key with no value holds <<>>.
Keys == {"x", "n"}
Written == [metadata |-> <<"m1", "m2", "m3", "m4">>,
            current  |-> <<"c1", "c2", "c3", "c4">>,
            past     |-> <<"p1", "p2", "p3", "p4">>]
Scope(name, count) ==
    [key \in Keys |-> IF key = "x" THEN SubSeq(Written[name], 1, count) ELSE <<>>]
Mem(m, c, p) ==
    [metadata |-> Scope("metadata", m), current |-> Scope("current", c),
     past |-> Scope("past", p)]
Memories == {Mem(m, c, p) : m \in 0..MaxVals, c \in 0..MaxVals, p \in 0..MaxVals}

NoEvent == [some |-> FALSE, content_type |-> "", text |-> ""]
TextEvent == [some |-> TRUE, content_type |-> "text", text |-> "hi"]
ImageEvent == [some |-> TRUE, content_type |-> "image", text |-> ""]
Events == {NoEvent, TextEvent, ImageEvent}

\* MultiMap::get_vec(key): the vector under the key, if any
get_vec(scope, key) == IF key \in DOMAIN scope THEN scope[key] ELSE <<>>
\* MultiMap::contains_key(key)
contains_key(scope, key) == get_vec(scope, key) # <<>>
\* MultiMap::get(key): the first item of the vector under the key
multimap_get(scope, key) ==
    IF contains_key(scope, key) THEN Some(Head(get_vec(scope, key))) ELSE None
\* MultiMap::get_vec(key).unwrap().last()
get_vec_unwrap_last(scope, key) ==
    IF contains_key(scope, key)
    THEN Some(get_vec(scope, key)[Len(get_vec(scope, key))])
    ELSE Unwrap

(***************************************************************************)
(* AstInterpreter: variables                                               *)
(***************************************************************************)
memorytype_to_literal(memtype) ==
    CASE memtype.st = "some"  -> Ok(StringLiteral(memtype.value))
      [] memtype.st = "none"  -> Err
      [] OTHER                -> Panic

gen_literal_form_event ==
    IF event.some
    THEN IF event.content_type = "text" THEN Ok(StringLiteral(event.text)) ELSE Err
    ELSE Err

\* a lookup that tries the current scope before metadata
search_var_memory_current_first(name) ==
    IF contains_key(memory.current, name)
    THEN memorytype_to_literal(multimap_get(memory.current, name))
    ELSE IF contains_key(memory.metadata, name)
    THEN memorytype_to_literal(multimap_get(memory.metadata, name))
    ELSE IF contains_key(memory.past, name)
    THEN memorytype_to_literal(multimap_get(memory.past, name))
    ELSE Err

search_var_memory(name) ==
    IF contains_key(memory.metadata, name)
    THEN memorytype_to_literal(multimap_get(memory.metadata, name))
    ELSE IF contains_key(memory.current, name)
    THEN memorytype_to_literal(multimap_get(memory.current, name))
    ELSE IF contains_key(memory.past, name)
    THEN memorytype_to_literal(multimap_get(memory.past, name))
    ELSE Err

get_var(name) ==
    IF name = "event" THEN gen_literal_form_event ELSE search_var_memory(name)

search_str(name, e) == Node(e).t = "IdentExpr" /\ Node(e).s = name

IsStringLit(e) == Node(e).t = "LitExpr" /\ Node(e).k = "String"

memory_get(name, e) ==
    IF search_str("past", name) /\ IsStringLit(e)
    THEN multimap_get(memory.past, Node(e).s)
    ELSE IF search_str("memory", name) /\ IsStringLit(e)
    THEN multimap_get(memory.current, Node(e).s)
    ELSE IF IsStringLit(e)
    THEN multimap_get(memory.metadata, Node(e).s)
    ELSE None

memory_first(name, e) ==
    IF search_str("past", name) /\ IsStringLit(e)
    THEN get_vec_unwrap_last(memory.past, Node(e).s)
    ELSE IF search_str("memory", name) /\ IsStringLit(e)
    THEN get_vec_unwrap_last(memory.current, Node(e).s)
    ELSE IF IsStringLit(e)
    THEN get_vec_unwrap_last(memory.metadata, Node(e).s)
    ELSE None

get_memory_action(name, e) ==
    CASE Node(e).t = "FunctionExpr" /\ Node(e).s = "get" ->
            memorytype_to_literal(memory_get(name, Node(e).x))
      [] Node(e).t = "FunctionExpr" /\ Node(e).s = "first" ->
            memorytype_to_literal(memory_first(name, Node(e).x))
      [] OTHER -> Err

\* Literal::to_string(), as pushed onto an interpolated string
LiteralToString(l) == l.val

RECURSIVE get_var_from_ident(_)
RECURSIVE get_string_from_complexstring(_, _)
RECURSIVE gen_literal_form_builder(_)

\* The loop over exprs, new_string being the string built so far.
get_string_from_complexstring(exprs, new_string) ==
    IF exprs = <<>> THEN Ok(StringLiteral(new_string))
    ELSE LET val == get_var_from_ident(Head(exprs))
         IN  IF val.st = "ok"
             THEN get_string_from_complexstring(
                      Tail(exprs), new_string \o LiteralToString(val.lit))
             ELSE val

gen_literal_form_builder(e) ==
    CASE Node(e).t = "BuilderExpr" /\ search_str("past", Node(e).x) ->
            get_memory_action(Node(e).x, Node(e).y)
      [] Node(e).t = "BuilderExpr" /\ search_str("memory", Node(e).x) ->
            get_memory_action(Node(e).x, Node(e).y)
      [] Node(e).t = "BuilderExpr" /\ search_str("metadata", Node(e).x) ->
            get_memory_action(Node(e).x, Node(e).y)
      [] Node(e).t = "ComplexLiteral" ->
            get_string_from_complexstring(Node(e).b, "")
      [] Node(e).t = "IdentExpr" -> get_var(Node(e).s)
      [] OTHER -> Err

get_var_from_ident(e) ==
    CASE Node(e).t = "LitExpr"        -> Ok(LitOf(Node(e)))
      [] Node(e).t = "IdentExpr"      -> get_var(Node(e).s)
      [] Node(e).t = "BuilderExpr"    -> gen_literal_form_builder(e)
      [] Node(e).t = "ComplexLiteral" -> gen_literal_form_builder(e)
      [] OTHER -> Err

gen_literal_form_exp(e) ==
    CASE Node(e).t = "LitExpr"   -> Ok(LitOf(Node(e)))
      [] Node(e).t = "IdentExpr" -> get_var(Node(e).s)
      [] OTHER -> Err

check_if_ident(e) ==
    Node(e).t \in {"LitExpr", "IdentExpr", "BuilderExpr", "ComplexLiteral"}

(***************************************************************************)
(* AstInterpreter: conditions                                              *)
(***************************************************************************)
\* The order of Literals: two Literals of one kind compare by value, and
\* Literals of different kinds are incomparable.  The strings are those the
\* modelled expressions compare, in lexicographic order.
Ordered == <<"1", "b", "c1", "c2", "c3", "c4", "false", "hi", "m1", "m2",
             "m3", "m4", "n", "p1", "p2", "p3", "p4", "x">>
Rank(v) == IF \E i \in 1..Len(Ordered) : Ordered[i] = v
           THEN CHOOSE i \in 1..Len(Ordered) : Ordered[i] = v
           ELSE 0
LitLess(l1, l2) == l1.kind = l2.kind /\ Rank(l1.val) < Rank(l2.val)

cmp_lit(infix, lit1, lit2) ==
    CASE infix = "Equal"            -> lit1 = lit2
      [] infix = "GreaterThanEqual" -> LitLess(lit2, lit1) \/ lit1 = lit2
      [] infix = "LessThanEqual"    -> LitLess(lit1, lit2) \/ lit1 = lit2
      [] infix = "GreaterThan"      -> LitLess(lit2, lit1)
      [] infix = "LessThan"         -> LitLess(lit1, lit2)
      [] infix = "And"              -> TRUE
      [] infix = "Or"               -> TRUE

cmp_bool(infix, b1, b2) ==
    CASE infix = "Equal"            -> b1 = b2
      [] infix = "GreaterThanEqual" -> b1 \/ ~b2
      [] infix = "LessThanEqual"    -> ~b1 \/ b2
      [] infix = "GreaterThan"      -> b1 /\ ~b2
      [] infix = "LessThan"         -> ~b1 /\ b2
      [] infix = "And"              -> b1 /\ b2
      [] infix = "Or"               -> b1 \/ b2

\* Result<bool>, or the unwinding of a panic
BOk(b) == [st |-> "ok", b |-> b]
BErr == [st |-> "err", b |-> FALSE]
BPanic == [st |-> "panic", b |-> FALSE]
NotEvaluated == [st |-> "none", b |-> FALSE]

\* match (f(..), g(..)): the tuple is built left to right, so a panic in either
\* call unwinds before any arm is chosen; the (Ok, Ok) arm needs both.
PairSt(r1, r2) ==
    IF r1.st = "panic" \/ r2.st = "panic" THEN "panic"
    ELSE IF r1.st = "ok" /\ r2.st = "ok" THEN "ok"
    ELSE "err"

IsLit(e) == Node(e).t = "LitExpr"
IsInfix(e) == Node(e).t = "InfixExpr"

\* a mixed node whose `or` also yields the sub-condition's result
mixed_result_or_sub(infix, e) ==
    CASE infix \in {"And", "Or"} -> BOk(e)
      [] OTHER                   -> BErr

\* The (Ok(e), Ok(_)) arm of a mixed node: e is the sub-condition's result.
mixed_result(infix, e) ==
    CASE infix = "And" -> BOk(e)
      [] infix = "Or"  -> BOk(TRUE)
      [] OTHER         -> BErr

RECURSIVE evaluate_condition(_, _, _)
evaluate_condition(infix, expr1, expr2) ==
    IF IsLit(expr1) /\ IsLit(expr2)
    THEN BOk(cmp_lit(infix, LitOf(Node(expr1)), LitOf(Node(expr2))))
    ELSE IF check_if_ident(expr1) /\ check_if_ident(expr2)
    THEN LET l1 == get_var_from_ident(expr1)
             l2 == get_var_from_ident(expr2)
         IN  CASE PairSt(l1, l2) = "ok"    -> BOk(cmp_lit(infix, l1.lit, l2.lit))
               [] PairSt(l1, l2) = "panic" -> BPanic
               [] OTHER                    -> BErr
    ELSE IF IsInfix(expr1) /\ IsInfix(expr2)
    THEN LET l1 == evaluate_condition(Node(expr1).s, Node(expr1).x, Node(expr1).y)
             l2 == evaluate_condition(Node(expr2).s, Node(expr2).x, Node(expr2).y)
         IN  CASE PairSt(l1, l2) = "ok"    -> BOk(cmp_bool(infix, l1.b, l2.b))
               [] PairSt(l1, l2) = "panic" -> BPanic
               [] OTHER                    -> BErr
    ELSE IF IsInfix(expr1)
    THEN LET e1 == evaluate_condition(Node(expr1).s, Node(expr1).x, Node(expr1).y)
             l2 == gen_literal_form_exp(expr2)
         IN  CASE PairSt(e1, l2) = "ok"    -> mixed_result(infix, e1.b)
               [] PairSt(e1, l2) = "panic" -> BPanic
               [] OTHER                    -> BErr
    ELSE IF IsInfix(expr2)
    THEN LET l1 == gen_literal_form_exp(expr1)
             e2 == evaluate_condition(Node(expr2).s, Node(expr2).x, Node(expr2).y)
         IN  CASE PairSt(l1, e2) = "ok"    -> mixed_result(infix, e2.b)
               [] PairSt(l1, e2) = "panic" -> BPanic
               [] OTHER                    -> BErr
    ELSE BErr

\* bool, or the unwinding of a panic
valid_condition(e) ==
    CASE Node(e).t = "InfixExpr" ->
            LET rep == evaluate_condition(Node(e).s, Node(e).x, Node(e).y)
            IN  CASE rep.st = "ok"    -> BOk(rep.b)
                  [] rep.st = "err"   -> BOk(FALSE)
                  [] OTHER            -> BPanic
      [] Node(e).t = "LitExpr" -> BOk(TRUE)
      [] Node(e).t = "BuilderExpr" ->
            LET r == get_var_from_ident(e)
            IN  IF r.st = "panic" THEN BPanic ELSE BOk(r.st = "ok")
      [] Node(e).t = "IdentExpr" ->
            LET r == get_var(Node(e).s)
            IN  IF r.st = "panic" THEN BPanic ELSE BOk(r.st = "ok")
      [] OTHER -> BOk(FALSE)

(***************************************************************************)
(* RootInterface and MessageType                                           *)
(***************************************************************************)
Message(content_type, content) == [content_type |-> content_type, content |-> content]

\* memories: the writes by name; next_step, next_flow: <<>> is None, <<s>> Some(s)
NoWrites == [name \in {} |-> ""]
NewRoot == [memories |-> NoWrites, messages |-> <<>>, next_flow |-> <<>>,
            next_step |-> <<>>]

add_message(root, msg) == [root EXCEPT !.messages = Append(@, msg)]
add_to_memory(root, name, value) ==
    [root EXCEPT !.memories =
        [m \in DOMAIN @ \cup {name} |-> IF m = name THEN value ELSE @[m]]]
add_next_step(root, step) == [root EXCEPT !.next_step = <<step>>]

\* impl Add for RootInterface: root + action
RootAdd(root, other) ==
    [memories   |-> [m \in DOMAIN root.memories \cup DOMAIN other.memories |->
                        IF m \in DOMAIN other.memories THEN other.memories[m]
                        ELSE root.memories[m]],
     messages   |-> root.messages \o other.messages,
     next_flow  |-> IF other.next_flow # <<>> THEN other.next_flow ELSE root.next_flow,
     next_step  |-> IF other.next_step # <<>> THEN other.next_step ELSE root.next_step]

\* Result<MessageType>, or the unwinding of a panic
Msg(msg) == [st |-> "ok", t |-> "Msg", msgs |-> <<msg>>, name |-> "", value |-> ""]
Assign(name, value) ==
    [st |-> "ok", t |-> "Assign", msgs |-> <<>>, name |-> name, value |-> value]
MtEmpty == [st |-> "ok", t |-> "Empty", msgs |-> <<>>, name |-> "", value |-> ""]
MtErr == [st |-> "err", t |-> "", msgs |-> <<>>, name |-> "", value |-> ""]
MtPanic == [st |-> "panic", t |-> "", msgs |-> <<>>, name |-> "", value |-> ""]

\* builtins::remember(name, value)
remember(name, value) == Assign(name, value)

\* What a builtin renders of its argument: the text of a literal argument.
Rendered(args) == IF Node(args).t = "LitExpr" THEN Node(args).s ELSE ""

(***************************************************************************)
(* AstInterpreter: actions                                                 *)
(***************************************************************************)
match_builtin(builtin, args) ==
    CASE builtin \in {"Typing", "Wait", "Text", "Url", "Image"} ->
            Msg(Message(builtin, Rendered(args)))
      [] builtin = "OneOf"  -> Msg(Message("text", Rendered(args)))
      [] builtin = "Button" -> Msg(Message("button", Rendered(args)))
      [] OTHER -> MtErr

\* Ok(val) => a text message of the value; Err(e) => Err(e)
TextOf(val) ==
    CASE val.st = "ok"  -> Msg(Message("text", val.lit.val))
      [] val.st = "err" -> MtErr
      [] OTHER          -> MtPanic

match_action(action) ==
    CASE Node(action).t = "Action" -> match_builtin(Node(action).s, Node(action).x)
      [] Node(action).t = "LitExpr" -> Msg(Message("text", Node(action).s))
      [] Node(action).t = "BuilderExpr" -> TextOf(get_var_from_ident(action))
      [] Node(action).t = "ComplexLiteral" ->
            TextOf(get_string_from_complexstring(Node(action).b, ""))
      [] Node(action).t = "Empty" -> MtEmpty
      [] OTHER -> MtErr

\* The ask / respond arm (lines 57-66) is never reached from match_block, which
\* takes every ask and respond itself before it calls match_reserved.
match_reserved(reserved, arg) ==
    CASE reserved = "say"   -> match_action(arg)
      [] reserved = "retry" -> match_action(arg)
      [] OTHER              -> MtErr

add_to_message(root, action) ==
    CASE action.t = "Msg"    -> add_message(root, action.msgs[1])
      [] action.t = "Msgs"   -> [root EXCEPT !.messages = @ \o action.msgs]
      [] action.t = "Assign" -> add_to_memory(root, action.name, action.value)
      [] OTHER               -> root

(***************************************************************************)
(* AstInterpreter::match_block, one activation per frame                   *)
(* A frame is [blk, pc, root, via, out]: the block, the index of the next  *)
(* statement of the for loop, the accumulator, who called ("top": the      *)
(* host, "sub": match_sub_block for an ask / respond, "if": the            *)
(* consequence of an if) and the state of the call ("run", or the value it *)
(* returns: "ok" for Ok(root), "err" for Err).                             *)
(***************************************************************************)
Frame(blk, via) == [blk |-> blk, pc |-> 1, root |-> NewRoot, via |-> via, out |-> "run"]

Top == stack[Len(stack)]
Caller == stack[Len(stack) - 1]
Running == stack # <<>> /\ Top.out = "run"
HasStmt == Running /\ Top.pc <= Len(Top.blk)
StmtId == Top.blk[Top.pc]
Stmt == Node(StmtId)

\* a loop that never looks at next_step
HaltedNever(root) == FALSE

\* if root.next_step.is_some()
Halted(root) == root.next_step # <<>>

Evaluating == HasStmt /\ ~Halted(Top.root)

SetTop(f) == stack' = [stack EXCEPT ![Len(stack)] = f]
Push(f) == stack' = Append(stack, f)
Logged == evald' = Append(evald, <<Len(stack), Top.pc, StmtId>>)
Inputs == <<ast, lhs, rhs, arith, memory, event, expr, resolved, condition, actions,
            CompVars>>

NoResult == [st |-> "none", root |-> NewRoot]
\* the process unwinds: no frame is left and nothing is returned
Abort == stack' = <<>> /\ ret' = [st |-> "panic", root |-> NewRoot]

\* an ask that runs whether or not an event came in
ExecutesAskAlways(n) == n.s = "ask" \/ (n.s = "respond" /\ event.some)

\* (fun, self.event) of a Reserved statement: the first two arms
IsAskRespond(n) == n.t = "Reserved" /\ n.s \in {"ask", "respond"}
Executes(n) == (n.s = "ask" /\ ~event.some) \/ (n.s = "respond" /\ event.some)

\* a remember that takes a Literal of any kind
remember_any_kind(name, e) ==
    LET r == get_var_from_ident(e)
    IN  CASE r.st = "panic" -> MtPanic
          [] r.st = "ok"    -> remember(name, r.lit.val)
          [] OTHER          -> MtErr

\* the value a Remember statement adds, or its failure
remember_value(name, e) ==
    LET r == get_var_from_ident(e)
    IN  CASE r.st = "panic" -> MtPanic
          [] r.st = "ok" /\ r.lit.kind = "String" -> remember(name, r.lit.val)
          [] OTHER -> MtErr

\* After a statement that yields a MessageType: add it and go on, or fail.
Continue(action) ==
    CASE action.st = "ok" ->
            /\ SetTop([Top EXCEPT !.root = add_to_message(@, action), !.pc = @ + 1])
            /\ UNCHANGED ret
      [] action.st = "err" ->
            /\ SetTop([Top EXCEPT !.out = "err"])
            /\ UNCHANGED ret
      [] OTHER -> Abort

\* for action in actions { if root.next_step.is_some() { return Ok(root) } .. }
ReturnOnNextStep ==
    /\ HasStmt
    /\ Halted(Top.root)
    /\ SetTop([Top EXCEPT !.out = "ok"])
    /\ UNCHANGED <<Inputs, ret, evald>>

\* the loop is over: Ok(root)
EndOfBlock ==
    /\ Running
    /\ Top.pc > Len(Top.blk)
    /\ SetTop([Top EXCEPT !.out = "ok"])
    /\ UNCHANGED <<Inputs, ret, evald>>

\* ask with no event, respond with an event: return self.match_sub_block(arg, root)
AskRespond ==
    /\ Evaluating
    /\ IsAskRespond(Stmt)
    /\ Executes(Stmt)
    /\ IF Node(Stmt.x).t = "VecExpr"
       THEN Push(Frame(Node(Stmt.x).b, "sub"))
       ELSE SetTop([Top EXCEPT !.out = "err"])
    /\ Logged
    /\ UNCHANGED <<Inputs, ret>>

\* any other ask or respond: continue
SkipAskRespond ==
    /\ Evaluating
    /\ IsAskRespond(Stmt)
    /\ ~Executes(Stmt)
    /\ SetTop([Top EXCEPT !.pc = @ + 1])
    /\ Logged
    /\ UNCHANGED <<Inputs, ret>>

\* any other reserved keyword: match_reserved, then add_to_message
ReservedStmt ==
    /\ Evaluating
    /\ Stmt.t = "Reserved"
    /\ ~IsAskRespond(Stmt)
    /\ Continue(match_reserved(Stmt.s, Stmt.x))
    /\ Logged
    /\ UNCHANGED Inputs

\* Expr::IfExpr { cond, consequence }
IfStmt ==
    /\ Evaluating
    /\ Stmt.t = "IfExpr"
    /\ LET c == valid_condition(Stmt.x)
       IN  CASE c.st = "panic" -> Abort
             [] c.st = "ok" /\ c.b ->
                    Push(Frame(Stmt.b, "if")) /\ UNCHANGED ret
             [] OTHER ->
                    SetTop([Top EXCEPT !.pc = @ + 1]) /\ UNCHANGED ret
    /\ Logged
    /\ UNCHANGED Inputs

\* Expr::Goto(Ident(ident))
GotoStmt ==
    /\ Evaluating
    /\ Stmt.t = "Goto"
    /\ SetTop([Top EXCEPT !.root = add_next_step(@, Stmt.s), !.pc = @ + 1])
    /\ Logged
    /\ UNCHANGED <<Inputs, ret>>

\* a remember that also writes the value into the current scope of the Memory
RememberStmtWritesMemory ==
    /\ Evaluating
    /\ Stmt.t = "Remember"
    /\ check_if_ident(Stmt.x)
    /\ Continue(remember_value(Stmt.s, Stmt.x))
    /\ Logged
    /\ memory' = IF remember_value(Stmt.s, Stmt.x).st = "ok" /\ Stmt.s \in Keys
                  THEN [memory EXCEPT !.current[Stmt.s] =
                            Append(@, remember_value(Stmt.s, Stmt.x).value)]
                  ELSE memory
    /\ UNCHANGED <<ast, lhs, rhs, arith, event, expr, resolved, condition, actions,
                   CompVars>>

\* Expr::Remember(Ident(name), expr) if self.check_if_ident(expr)
RememberStmt ==
    /\ Evaluating
    /\ Stmt.t = "Remember"
    /\ check_if_ident(Stmt.x)
    /\ Continue(remember_value(Stmt.s, Stmt.x))
    /\ Logged
    /\ UNCHANGED Inputs

\* _ => Err("Block must start with a reserved keyword")
Malformed ==
    /\ Evaluating
    /\ Stmt.t \notin {"Reserved", "IfExpr", "Goto"}
    /\ ~(Stmt.t = "Remember" /\ check_if_ident(Stmt.x))
    /\ SetTop([Top EXCEPT !.out = "err"])
    /\ Logged
    /\ UNCHANGED <<Inputs, ret>>

\* a match_sub_block that adds the operands the other way round: action + root
ReturnSubBlockSwapped ==
    /\ Len(stack) > 1
    /\ Top.out # "run"
    /\ Top.via = "sub"
    /\ stack' = [SubSeq(stack, 1, Len(stack) - 1) EXCEPT ![Len(stack) - 1] =
                    IF Top.out = "ok"
                    THEN [Caller EXCEPT !.root = RootAdd(Top.root, @), !.out = "ok"]
                    ELSE [Caller EXCEPT !.out = "err"]]
    /\ UNCHANGED <<Inputs, ret, evald>>

\* match_sub_block: Ok(action) => Ok(root + action), Err(_) => Err(..)
ReturnSubBlock ==
    /\ Len(stack) > 1
    /\ Top.out # "run"
    /\ Top.via = "sub"
    /\ stack' = [SubSeq(stack, 1, Len(stack) - 1) EXCEPT ![Len(stack) - 1] =
                    IF Top.out = "ok"
                    THEN [Caller EXCEPT !.root = RootAdd(@, Top.root), !.out = "ok"]
                    ELSE [Caller EXCEPT !.out = "err"]]
    /\ UNCHANGED <<Inputs, ret, evald>>

\* an if that drops the error of its consequence and goes on
ReturnConsequenceLenient ==
    /\ Len(stack) > 1
    /\ Top.out # "run"
    /\ Top.via = "if"
    /\ stack' = [SubSeq(stack, 1, Len(stack) - 1) EXCEPT ![Len(stack) - 1] =
                    IF Top.out = "ok"
                    THEN [Caller EXCEPT !.root = RootAdd(@, Top.root), !.pc = @ + 1]
                    ELSE [Caller EXCEPT !.pc = @ + 1]]
    /\ UNCHANGED <<Inputs, ret, evald>>

\* an if that takes the messages and writes of its consequence, not its next_step
ReturnConsequenceDropsStep ==
    /\ Len(stack) > 1
    /\ Top.out # "run"
    /\ Top.via = "if"
    /\ stack' = [SubSeq(stack, 1, Len(stack) - 1) EXCEPT ![Len(stack) - 1] =
                    IF Top.out = "ok"
                    THEN [Caller EXCEPT
                            !.root = RootAdd(@, [Top.root EXCEPT !.next_step = <<>>]),
                            !.pc = @ + 1]
                    ELSE [Caller EXCEPT !.out = "err"]]
    /\ UNCHANGED <<Inputs, ret, evald>>

\* an if that returns the merged accumulator, as an executed ask does
ReturnConsequenceHalting ==
    /\ Len(stack) > 1
    /\ Top.out # "run"
    /\ Top.via = "if"
    /\ stack' = [SubSeq(stack, 1, Len(stack) - 1) EXCEPT ![Len(stack) - 1] =
                    IF Top.out = "ok"
                    THEN [Caller EXCEPT !.root = RootAdd(@, Top.root), !.out = "ok"]
                    ELSE [Caller EXCEPT !.out = "err"]]
    /\ UNCHANGED <<Inputs, ret, evald>>

\* the if: Ok(action) => root = root + action, Err(_) => return Err(..)
ReturnConsequence ==
    /\ Len(stack) > 1
    /\ Top.out # "run"
    /\ Top.via = "if"
    /\ stack' = [SubSeq(stack, 1, Len(stack) - 1) EXCEPT ![Len(stack) - 1] =
                    IF Top.out = "ok"
                    THEN [Caller EXCEPT !.root = RootAdd(@, Top.root), !.pc = @ + 1]
                    ELSE [Caller EXCEPT !.out = "err"]]
    /\ UNCHANGED <<Inputs, ret, evald>>

\* the outermost match_block hands its Result to the host
ReturnToHost ==
    /\ Len(stack) = 1
    /\ Top.out # "run"
    /\ stack' = <<>>
    /\ ret' = [st |-> Top.out, root |-> IF Top.out = "ok" THEN Top.root ELSE NewRoot]
    /\ UNCHANGED <<Inputs, evald>>

\* The statements a top-level block of the model is made of.
TopStmts == {2, 80, 83, 84, 110, 111, 112, 113, 120, 121, 122, 123, 124, 125,
             126, 127, 130, 140, 144, 145}
Blocks == UNION {[1..n -> TopStmts] : n \in 0..MaxBlockLen}

\* The memory of the interpreted turn: "x" was written twice in the past.
TurnMemory == Mem(0, 0, 2)

Init ==
    /\ ast = Tree
    /\ lhs = 0
    /\ rhs = [kind |-> "Int", value |-> 0]
    /\ arith = NotApplied
    /\ memory = TurnMemory
    /\ event \in {NoEvent, TextEvent}
    /\ expr = 0
    /\ resolved = NotResolved
    /\ condition = NotEvaluated
    /\ actions \in Blocks
    /\ stack = <<Frame(actions, "top")>>
    /\ ret = NoResult
    /\ evald = <<>>
    /\ CompIdle

Next ==
    \/ ReturnOnNextStep
    \/ EndOfBlock
    \/ AskRespond
    \/ SkipAskRespond
    \/ ReservedStmt
    \/ IfStmt
    \/ GotoStmt
    \/ RememberStmt
    \/ Malformed
    \/ ReturnSubBlock
    \/ ReturnConsequence
    \/ ReturnToHost

Spec == Init /\ [][Next]_vars

(***************************************************************************)
(* SpecNest: match_block on blocks of nested ifs, gotos and remembers      *)
(***************************************************************************)
NestStmts == {2, 80, 86, 92, 93, 111, 121, 124, 128, 129, 130, 141, 148, 149}
NestBlocks == UNION {[1..n -> NestStmts] : n \in 0..MaxBlockLen}

InitNest ==
    /\ ast = Tree
    /\ lhs = 0
    /\ rhs = [kind |-> "Int", value |-> 0]
    /\ arith = NotApplied
    /\ memory = TurnMemory
    /\ event \in {NoEvent, TextEvent}
    /\ expr = 0
    /\ resolved = NotResolved
    /\ condition = NotEvaluated
    /\ actions \in NestBlocks
    /\ stack = <<Frame(actions, "top")>>
    /\ ret = NoResult
    /\ evald = <<>>
    /\ CompIdle

SpecNest == InitNest /\ [][Next]_vars


(***************************************************************************)
(* SpecInt: one binary operator applied to a PrimitiveInt and an operand   *)
(***************************************************************************)
Operands == [kind : {"Int"}, value : IntRange] \cup {[kind |-> "String", value |-> 0]}
Applied(op, res) == [op |-> op, res |-> res]
IntVars == <<ast, lhs, rhs, memory, event, expr, resolved, condition,
             actions, stack, ret, evald, CompVars>>

InitInt ==
    /\ ast = Tree
    /\ lhs \in IntRange
    /\ rhs \in Operands
    /\ arith = NotApplied
    /\ memory = TurnMemory
    /\ event = NoEvent
    /\ expr = 0
    /\ resolved = NotResolved
    /\ condition = NotEvaluated
    /\ actions = <<>>
    /\ stack = <<>>
    /\ ret = NoResult
    /\ evald = <<>>
    /\ CompIdle

Add ==
    /\ arith = NotApplied
    /\ \E res \in do_add(lhs, rhs) : arith' = Applied("add", res)
    /\ UNCHANGED IntVars
Sub ==
    /\ arith = NotApplied
    /\ \E res \in do_sub(lhs, rhs) : arith' = Applied("sub", res)
    /\ UNCHANGED IntVars
Div ==
    /\ arith = NotApplied
    /\ \E res \in do_div(lhs, rhs) : arith' = Applied("div", res)
    /\ UNCHANGED IntVars
Mul ==
    /\ arith = NotApplied
    /\ \E res \in do_mul(lhs, rhs) : arith' = Applied("mul", res)
    /\ UNCHANGED IntVars
Rem ==
    /\ arith = NotApplied
    /\ \E res \in do_rem(lhs, rhs) : arith' = Applied("rem", res)
    /\ UNCHANGED IntVars
BitAnd ==
    /\ arith = NotApplied
    /\ \E res \in do_bitand(lhs, rhs) : arith' = Applied("bitand", res)
    /\ UNCHANGED IntVars
BitOr ==
    /\ arith = NotApplied
    /\ \E res \in do_bitor(lhs, rhs) : arith' = Applied("bitor", res)
    /\ UNCHANGED IntVars

NextInt == Add \/ Sub \/ Div \/ Mul \/ Rem \/ BitAnd \/ BitOr

SpecInt == InitInt /\ [][NextInt]_vars

(***************************************************************************)
(* SpecExpr: one expression resolved, and evaluated as a condition         *)
(***************************************************************************)
InitExpr ==
    /\ ast = Tree
    /\ lhs = 0
    /\ rhs = [kind |-> "Int", value |-> 0]
    /\ arith = NotApplied
    /\ memory \in Memories
    /\ event \in Events
    /\ expr \in ExprIds
    /\ resolved = NotResolved
    /\ condition = NotEvaluated
    /\ actions = <<>>
    /\ stack = <<>>
    /\ ret = NoResult
    /\ evald = <<>>
    /\ CompIdle

\* self.get_var_from_ident(expr)
Resolve ==
    /\ resolved = NotResolved
    /\ resolved' = get_var_from_ident(expr)
    /\ UNCHANGED <<ast, lhs, rhs, arith, memory, event, expr, condition,
                   actions, stack, ret, evald, CompVars>>

\* self.valid_condition(expr)
Evaluate ==
    /\ condition = NotEvaluated
    /\ condition' = valid_condition(expr)
    /\ UNCHANGED <<ast, lhs, rhs, arith, memory, event, expr, resolved,
                   actions, stack, ret, evald, CompVars>>

NextExpr == Resolve \/ Evaluate

SpecExpr == InitExpr /\ [][NextExpr]_vars


(***************************************************************************)
(* gen_generic_component: the schema                                       *)
(* A field of the schema is an object [type, required, default_value,      *)
(* add_value]; a rule of a list is [object, get, set]: object says whether *)
(* the element is a JSON object, get is its "$_get" string ("" when it has *)
(* none) and set its "$_set" value (JAbsent when it has none).  A list     *)
(* that is missing is <<>>.                                                *)
(***************************************************************************)
Field(type, required, default_value, add_value) ==
    [type |-> type, required |-> required, default_value |-> default_value,
     add_value |-> add_value]
FetchRule(dependencie) == [object |-> TRUE, get |-> dependencie, set |-> JAbsent]
SetRule(value) == [object |-> TRUE, get |-> "", set |-> value]
NotAnObject == [object |-> FALSE, get |-> "", set |-> JAbsent]

\* the result of a call: Ok(value), or the fault the process stops with
Generated(v) == [st |-> "ok", val |-> v, fault |-> ""]
Unimplemented(msg) == [st |-> "panic", val |-> JNull, fault |-> msg]
CircularDependency == "ERROR: circular dependecies"
MissingRequiredField == "ERROR: no parameters has been given"

\* impl ArithmeticOperation for serde_json::Value
add(l, r) ==
    CASE l.k = "Null" /\ r.k = "Null"     -> Generated(JNull)
      [] l.k = "Bool" /\ r.k = "Bool"     -> Generated(JBool(l.b \/ r.b))
      [] l.k = "Number" /\ r.k = "Number" -> Unimplemented("not implemented")
      [] l.k = "String" /\ r.k = "String" -> Generated(JString(l.s \o r.s))
      [] l.k = "Array" /\ r.k = "Array"   -> Generated(JArray(l.a \o r.a))
      [] l.k = "Object" /\ r.k = "Object" ->
            Generated(JObject([key \in DOMAIN l.o \cup DOMAIN r.o |->
                                 IF key \in DOMAIN r.o THEN r.o[key] ELSE l.o[key]]))
      [] OTHER -> Unimplemented("ERROR: Illegal operation")

is_parameter_required(object) == object.required

create_default_object(object) ==
    CASE object.type = "Null"   -> Generated(JNull)
      [] object.type = "Bool"   -> Generated(JBool(FALSE))
      [] object.type = "Number" -> Generated(JNumber(0))
      [] object.type = "String" -> Generated(JString(""))
      [] object.type = "Array"  -> Generated(JArray(<<>>))
      [] object.type = "Object" -> Generated(JObject(NoEntries))
      [] object.type = ""       -> Unimplemented("ERROR: type must exist !")
      [] OTHER                  -> Unimplemented("ERROR: type not handled")

\* the two results get_object adds: the default_value one and the add_value one
add_add_value_first(default, added) == add(added, default)
add_lists(default, added) == add(default, added)

\* object.keys(): the keys of a serde_json Map, in the order of the strings
KeyOrder == <<"_primary", "f", "g", "h">>
RECURSIVE keys_from(_, _)
keys_from(object, i) ==
    IF i > Len(KeyOrder) THEN <<>>
    ELSE (IF KeyOrder[i] \in DOMAIN object THEN <<KeyOrder[i]>> ELSE <<>>)
            \o keys_from(object, i + 1)
keys(object) == keys_from(object, 1)
\* .skip_while(|key| *key == "_primary")
RECURSIVE skip_while_primary(_)
skip_while_primary(ks) ==
    IF ks # <<>> /\ Head(ks) = "_primary" THEN skip_while_primary(Tail(ks)) ELSE ks

(***************************************************************************)
(* gen_generic_component, one activation of get_object per frame           *)
(* A frame is [key, stage, i, part, result, first]: the key; where the     *)
(* call is ("enter", in the loop of get_default_object over the list       *)
(* "default_value" or "add_value", or "done"); the index of the rule in    *)
(* the loop and the part of it to do next ("get", then "set"); the result  *)
(* of the loop so far (the returned value when done); and the result of    *)
(* the default_value loop once it is over.                                 *)
(***************************************************************************)
Call(key) == [key |-> key, stage |-> "enter", i |-> 1, part |-> "get",
              result |-> JNull, first |-> JNull]
Active == calls[Len(calls)]
Parent == calls[Len(calls) - 1]
Generating == outcome.st = "run"
InLoop == Generating /\ calls # <<>> /\ Active.stage \in {"default_value", "add_value"}
Rules ==
    IF Active.stage = "default_value" THEN header[Active.key].default_value
    ELSE header[Active.key].add_value
HasRule == InLoop /\ Active.i <= Len(Rules)
Rule == Rules[Active.i]

\* !hashset.insert(key): the key is already in the set of this resolution
already_visited_by_caller(key) == Len(calls) > 1 /\ key = Parent.key
already_visited(key) == key \in hashset

SetActive(f) == calls' = [calls EXCEPT ![Len(calls)] = f]
\* unimplemented!(): the process stops with the fault
Fault(msg) ==
    /\ calls' = <<>>
    /\ outcome' = [st |-> "panic", fault |-> msg]
\* result = add(&result, &value)?
Merged(value, part) ==
    LET r == add(Active.result, value)
    IN  IF r.st = "ok"
        THEN /\ SetActive([Active EXCEPT !.result = r.val, !.part = part,
                                        !.i = IF part = "get" THEN @ + 1 ELSE @])
             /\ UNCHANGED outcome
        ELSE Fault(r.fault)

\* for key in object.keys().skip_while(..): get_object(key, header, args, &mut HashSet::new())
ResolveField ==
    /\ Generating
    /\ calls = <<>>
    /\ key_iter # <<>>
    /\ calls' = <<Call(Head(key_iter))>>
    /\ hashset' = {}
    /\ UNCHANGED <<InterpVars, header, key_iter, hashmap, outcome>>

\* get_object, up to its first call of get_default_object
EnterObject ==
    /\ Generating
    /\ calls # <<>>
    /\ Active.stage = "enter"
    /\ IF already_visited(Active.key)
       THEN Fault(CircularDependency) /\ UNCHANGED hashset
       ELSE /\ hashset' = hashset \cup {Active.key}
            /\ IF Active.key \notin DOMAIN header
               THEN /\ SetActive([Active EXCEPT !.stage = "done", !.result = JNull])
                    /\ UNCHANGED outcome
               ELSE IF is_parameter_required(header[Active.key])
               THEN Fault(MissingRequiredField)
               ELSE LET r == create_default_object(header[Active.key])
                    IN  IF r.st = "ok"
                        THEN /\ SetActive([Active EXCEPT !.stage = "default_value",
                                                        !.result = r.val])
                             /\ UNCHANGED outcome
                        ELSE Fault(r.fault)
    /\ UNCHANGED <<InterpVars, header, key_iter, hashmap>>

\* an element of the list that is no object
NotAFunction ==
    /\ HasRule
    /\ ~Rule.object
    /\ Fault("ERROR: function must be inside object")
    /\ UNCHANGED <<InterpVars, header, key_iter, hashmap, hashset>>

\* "$_get": get_object(dependencie, value, args, hashset)
Fetch ==
    /\ HasRule
    /\ Rule.object
    /\ Active.part = "get"
    /\ Rule.get # ""
    /\ calls' = Append(calls, Call(Rule.get))
    /\ UNCHANGED <<InterpVars, header, key_iter, hashmap, hashset, outcome>>

\* the nested get_object returned: result = add(&result, &..)?
Fetched ==
    /\ Generating
    /\ Len(calls) > 1
    /\ Active.stage = "done"
    /\ LET r == add(Parent.result, Active.result)
       IN  IF r.st = "ok"
           THEN /\ calls' = [SubSeq(calls, 1, Len(calls) - 1) EXCEPT
                               ![Len(calls) - 1] =
                                   [Parent EXCEPT !.result = r.val, !.part = "set"]]
                /\ UNCHANGED outcome
           ELSE Fault(r.fault)
    /\ UNCHANGED <<InterpVars, header, key_iter, hashmap, hashset>>

\* "$_set": result = add(&result, dependencie)?, and the next element
SetValue ==
    /\ HasRule
    /\ Rule.object
    /\ Active.part = "set" \/ Rule.get = ""
    /\ IF Rule.set # JAbsent
       THEN Merged(Rule.set, "get")
       ELSE /\ SetActive([Active EXCEPT !.part = "get", !.i = @ + 1])
            /\ UNCHANGED outcome
    /\ UNCHANGED <<InterpVars, header, key_iter, hashmap, hashset>>

\* the loop is over: Ok(result); after the second one get_object adds the two
EndOfRules ==
    /\ InLoop
    /\ Active.i > Len(Rules)
    /\ IF Active.stage = "default_value"
       THEN LET r == create_default_object(header[Active.key])
            IN  /\ SetActive([Active EXCEPT !.stage = "add_value", !.i = 1,
                                            !.part = "get", !.first = Active.result,
                                            !.result = r.val])
                /\ UNCHANGED outcome
       ELSE LET r == add_lists(Active.first, Active.result)
            IN  IF r.st = "ok"
                THEN /\ SetActive([Active EXCEPT !.stage = "done", !.result = r.val])
                     /\ UNCHANGED outcome
                ELSE Fault(r.fault)
    /\ UNCHANGED <<InterpVars, header, key_iter, hashmap, hashset>>

\* hashmap.insert(key, json_to_literal(..)?)
InsertField ==
    /\ Generating
    /\ Len(calls) = 1
    /\ Active.stage = "done"
    /\ hashmap' = [key \in DOMAIN hashmap \cup {Active.key} |->
                      IF key = Active.key THEN Active.result ELSE hashmap[key]]
    /\ key_iter' = Tail(key_iter)
    /\ calls' = <<>>
    /\ UNCHANGED <<InterpVars, header, hashset, outcome>>

\* Ok(get_result(name, &hashmap, *interval))
GetResult ==
    /\ Generating
    /\ calls = <<>>
    /\ key_iter = <<>>
    /\ outcome' = [st |-> "ok", fault |-> ""]
    /\ UNCHANGED <<InterpVars, header, key_iter, hashmap, hashset, calls>>

\* The schemas of the model: fields "f" and "g" of one declared kind, and a
\* "_primary" field, which the loop of gen_generic_component skips; "h" is a
\* key the schema does not have.
FieldKinds == {"Null", "Bool", "Number", "String", "Array", "Object", "Foo"}
ValueA(kind) ==
    CASE kind = "Bool"   -> JBool(TRUE)
      [] kind = "Number" -> JNumber(1)
      [] kind = "String" -> JString("a")
      [] kind = "Array"  -> JArray(<<"a">>)
      [] kind = "Object" -> JObject([key \in {"p"} |-> "1"])
      [] OTHER           -> JNull
ValueB(kind) ==
    CASE kind = "Bool"   -> JBool(FALSE)
      [] kind = "Number" -> JNumber(2)
      [] kind = "String" -> JString("b")
      [] kind = "Array"  -> JArray(<<"b">>)
      [] kind = "Object" -> JObject([key \in {"p", "q"} |-> IF key = "p" THEN "2" ELSE "3"])
      [] OTHER           -> JNull
Lists(rules, n) == UNION {[1..m -> rules] : m \in 0..n}
DefaultRules(kind) ==
    {FetchRule("f"), FetchRule("g"), SetRule(ValueA(kind)), SetRule(ValueB(kind))}
AddRules(kind) == {FetchRule("h"), SetRule(ValueB(kind)), NotAnObject}
\* the lists of "g": none, a fetch of "f", or literal values
OfG(kind) ==
    {<<<<>>, <<>>>>, <<<<FetchRule("f")>>, <<>>>>,
     <<<<SetRule(ValueA(kind))>>, <<SetRule(ValueB(kind))>>>>}
\* what else is declared: nothing, "f" or "g" required, or a "_primary" that
\* fetches itself
Declared == {"", "f", "g", "_primary"}
SchemasOf(kind) ==
    {[key \in {"_primary", "f", "g"} |->
        CASE key = "f" -> Field(kind, decl = "f", df, af)
          [] key = "g" -> Field(kind, decl = "g", g[1], g[2])
          [] OTHER     -> Field(kind, FALSE,
                                IF decl = "_primary" THEN <<FetchRule("_primary")>>
                                ELSE <<>>, <<>>)] :
     decl \in Declared,
     df \in Lists(DefaultRules(kind), MaxRules), af \in Lists(AddRules(kind), 1),
     g \in OfG(kind)}
Schemas == UNION {SchemasOf(kind) : kind \in FieldKinds}

InitComp ==
    /\ ast = Tree
    /\ lhs = 0
    /\ rhs = [kind |-> "Int", value |-> 0]
    /\ arith = NotApplied
    /\ memory = TurnMemory
    /\ event = NoEvent
    /\ expr = 0
    /\ resolved = NotResolved
    /\ condition = NotEvaluated
    /\ actions = <<>>
    /\ stack = <<>>
    /\ ret = NoResult
    /\ evald = <<>>
    /\ header \in Schemas
    /\ key_iter = skip_while_primary(keys(header))
    /\ hashmap = NoEntries
    /\ hashset = {}
    /\ calls = <<>>
    /\ outcome = [st |-> "run", fault |-> ""]

NextComp ==
    \/ ResolveField
    \/ EnterObject
    \/ NotAFunction
    \/ Fetch
    \/ Fetched
    \/ SetValue
    \/ EndOfRules
    \/ InsertField
    \/ GetResult

SpecComp == InitComp /\ [][NextComp]_vars

\* gen_generic_component is one sequential call: it runs on while a step is left
SpecCompFair == SpecComp /\ WF_vars(NextComp)


(***************************************************************************)
(* Properties                                                              *)
(***************************************************************************)
Done == stack = <<>> /\ ret.st # "none"
\* the stack after a step that changes only the innermost frame, to f
OnlyTop(f) == stack' = [stack EXCEPT ![Len(stack)] = f]
TextMsg(content) == Message("text", content)

\* C1 -- once a goto <step> is executed, the block evaluates no later
\* statement: the goto only records next_step = <step> in the accumulator
\* (messages and writes stay those of the statements before it), an
\* activation whose accumulator has a next_step returns that accumulator as
\* it is without logging another statement, and the host receives it.
NoEvalAfterGoto ==
    \A i \in 1..Len(evald) :
        Node(evald[i][3]).t = "Goto" =>
            \A j \in (i + 1)..Len(evald) :
                \/ evald[j][1] # evald[i][1]
                \/ \E k \in (i + 1)..(j - 1) : evald[k][1] < evald[i][1]
GotoRecords ==
    (Evaluating /\ Stmt.t = "Goto") =>
        OnlyTop([Top EXCEPT !.root = [Top.root EXCEPT !.next_step = <<Stmt.s>>],
                            !.pc = Top.pc + 1])
HaltedReturns ==
    (Running /\ Top.root.next_step # <<>>) =>
        (evald' = evald /\ OnlyTop([Top EXCEPT !.out = "ok"]))
HostGetsRoot ==
    (Len(stack) = 1 /\ Top.out = "ok") => ret' = [st |-> "ok", root |-> Top.root]
C1_GotoHalts ==
    [](NoEvalAfterGoto) /\ [][GotoRecords /\ HaltedReturns /\ HostGetsRoot]_vars
\* [say "b"; goto "next"; <malformed>] returned Ok with the one message
C1_Witness ==
    /\ Done
    /\ actions = <<80, 130, 2>>
    /\ ret.st = "ok"
    /\ ret.root.next_step = <<"next">>
    /\ ret.root.messages = <<TextMsg("b")>>
    /\ evald = <<<<1, 1, 80>>, <<1, 2, 130>>>>


\* entry j of the history is a later statement of the activation of entry i
LaterInBlock(i, j) ==
    /\ i < j
    /\ evald[j][1] = evald[i][1]
    /\ \A k \in (i + 1)..(j - 1) : evald[k][1] >= evald[i][1]

\* C2 -- an ask is executed exactly when no Event is present, a respond
\* exactly when one is.  Executed: its nested block is interpreted from a fresh
\* accumulator, an Ok result is merged into the caller's accumulator and the
\* caller returns at once, evaluating no later statement.  Not executed: the
\* statement changes nothing and the loop moves to the next statement.
AskRuns(n) ==
    /\ n.t = "Reserved"
    /\ (n.s = "ask" /\ event = NoEvent) \/ (n.s = "respond" /\ event # NoEvent)
AskSkipped(n) ==
    /\ n.t = "Reserved"
    /\ (n.s = "ask" /\ event # NoEvent) \/ (n.s = "respond" /\ event = NoEvent)
NestedInterpreted ==
    (Evaluating /\ AskRuns(Stmt) /\ Node(Stmt.x).t = "VecExpr") =>
        stack' = Append(stack, Frame(Node(Stmt.x).b, "sub"))
SkippedIsNoOp ==
    (Evaluating /\ AskSkipped(Stmt)) => OnlyTop([Top EXCEPT !.pc = Top.pc + 1])
MergedAndReturned ==
    (Len(stack) > 1 /\ Top.via = "sub" /\ Top.out = "ok") =>
        stack' = [SubSeq(stack, 1, Len(stack) - 1) EXCEPT ![Len(stack) - 1] =
                    [Caller EXCEPT !.root = RootAdd(Caller.root, Top.root),
                                   !.out = "ok"]]
ReturningEvaluatesNothing ==
    (stack # <<>> /\ Top.out # "run") => evald' = evald
NoEvalAfterAsk ==
    \A i \in 1..Len(evald) :
        AskRuns(Node(evald[i][3])) =>
            \A j \in 1..Len(evald) : ~LaterInBlock(i, j)
C2_AskRespond ==
    /\ [](NoEvalAfterAsk)
    /\ [][NestedInterpreted /\ SkippedIsNoOp /\ MergedAndReturned
          /\ ReturningEvaluatesNothing]_vars
\* [ask [..; say "m1"]; say "b"] with no Event: only the nested message
C2_Witness ==
    /\ Done
    /\ event = NoEvent
    /\ actions = <<110, 80>>
    /\ ret.st = "ok"
    /\ ret.root.messages = <<TextMsg("m1")>>
    /\ \A i \in 1..Len(evald) : evald[i][3] # 80

\* C3 -- a failing statement (unknown builtin or keyword, invalid action
\* expression, failed remember, unrecognized statement shape, executed ask or
\* respond without a block), at any depth, is the last statement evaluated,
\* and match_block then returns an error and no accumulator.
FailingStmt(id) ==
    LET n == Node(id)
    IN  \/ /\ n.t = "Reserved"
           /\ n.s \notin {"ask", "respond"}
           /\ match_reserved(n.s, n.x).st = "err"
        \/ AskRuns(n) /\ n.s \in {"ask", "respond"} /\ Node(n.x).t # "VecExpr"
        \/ /\ n.t = "Remember"
           /\ check_if_ident(n.x)
           /\ get_var_from_ident(n.x).st = "err"
        \/ n.t = "Remember" /\ ~check_if_ident(n.x)
        \/ n.t \notin {"Reserved", "IfExpr", "Goto", "Remember"}
RememberShape(n) == n.t = "Remember" /\ check_if_ident(n.x)
UnresolvableConds == {36, 37, 53, 67}
C9_IfNeverFails ==
    [][(Evaluating /\ Stmt.t = "IfExpr") =>
         /\ \/ stack' = Append(stack, Frame(Stmt.b, "if"))
            \/ OnlyTop([Top EXCEPT !.pc = Top.pc + 1])
         /\ Stmt.x \in UnresolvableConds =>
                OnlyTop([Top EXCEPT !.pc = Top.pc + 1])]_vars


\* C5 -- a bare identifier other than `event` resolves to a value held by the
\* first scope that contains the key, in the order metadata, current, past,
\* and fails when no scope contains it.
HeldBy(scope, key) == IF key \in DOMAIN scope THEN scope[key] ELSE <<>>
ResolvedFrom(vals) ==
    /\ resolved.st = "ok"
    /\ resolved.lit.kind = "String"
    /\ \E i \in 1..Len(vals) : vals[i] = resolved.lit.val
C5_LookupPrecedence ==
    (resolved # NotResolved /\ Node(expr).t = "IdentExpr" /\ Node(expr).s # "event") =>
        LET m == HeldBy(memory.metadata, Node(expr).s)
            c == HeldBy(memory.current, Node(expr).s)
            p == HeldBy(memory.past, Node(expr).s)
        IN  /\ m # <<>> => ResolvedFrom(m)
            /\ (m = <<>> /\ c # <<>>) => ResolvedFrom(c)
            /\ (m = <<>> /\ c = <<>> /\ p # <<>>) => ResolvedFrom(p)
            /\ (m = <<>> /\ c = <<>> /\ p = <<>>) => resolved = Err
\* x is in all three scopes and resolves to the metadata value
C5_Witness ==
    /\ expr = 7
    /\ memory = Mem(1, 1, 1)
    /\ resolved = Ok(StringLiteral("m1"))

\* C6 -- under a key written v1, .., vn (n >= 2) in a scope, the builder-path
\* function `first` yields v1 and `get` yields vn.
ScopeOf(name) ==
    CASE name = "past"   -> memory.past
      [] name = "memory" -> memory.current
      [] OTHER           -> memory.metadata
C6_FirstAndGet ==
    LET n == Node(expr)
        f == Node(n.y)
    IN  (/\ resolved # NotResolved
         /\ n.t = "BuilderExpr"
         /\ Node(n.x).t = "IdentExpr"
         /\ Node(n.x).s \in {"past", "memory", "metadata"}
         /\ f.t = "FunctionExpr"
         /\ f.s \in {"get", "first"}
         /\ Node(f.x).t = "LitExpr"
         /\ Node(f.x).k = "String") =>
            LET vals == HeldBy(ScopeOf(Node(n.x).s), Node(f.x).s)
            IN  Len(vals) >= 2 =>
                    /\ f.s = "first" => resolved = Ok(StringLiteral(vals[1]))
                    /\ f.s = "get" => resolved = Ok(StringLiteral(vals[Len(vals)]))

\* one side of the node is an infix sub-condition, the other a plain operand
Plain(e) == Node(e).t \in {"LitExpr", "IdentExpr", "BuilderExpr", "ComplexLiteral"}
IsMixed(n, infix) ==
    /\ n.t = "InfixExpr"
    /\ n.s = infix
    /\ \/ Node(n.x).t = "InfixExpr" /\ Plain(n.y)
       \/ Plain(n.x) /\ Node(n.y).t = "InfixExpr"
SubOf(n) == IF Node(n.x).t = "InfixExpr" THEN Node(n.x) ELSE Node(n.y)
PlainOf(n) == IF Node(n.x).t = "InfixExpr" THEN n.y ELSE n.x
\* the plain operand is a literal, or an identifier that resolves
PlainResolves(e) ==
    \/ Node(e).t = "LitExpr"
    \/ Node(e).t = "IdentExpr" /\ get_var(Node(e).s).st = "ok"

C7_ZeroDivisor ==
    (arith.op \in {"div", "rem"} /\ rhs = [kind |-> "Int", value |-> 0]) =>
        arith.res = ErrInfo("DivisionByZero")

\* C8 -- on two integers, add, subtract, multiply, remainder, bitwise-and and
\* bitwise-or return an integer; divide by a nonzero divisor returns the
\* integer quotient when it is exact and a float otherwise.
Divides(b, a) == \E q \in (MinInt - 1)..(MaxInt + 1) : q * b = a
C8_IntClosure ==
    (arith.op # "" /\ rhs.kind = "Int") =>
        /\ arith.op \in {"add", "sub", "mul", "rem", "bitand", "bitor"} =>
              (arith.res.st = "ok" /\ arith.res.kind = "Int")
        /\ (arith.op = "div" /\ rhs.value # 0) =>
              IF Divides(rhs.value, lhs)
              THEN \E q \in (MinInt - 1)..(MaxInt + 1) :
                      q * rhs.value = lhs /\ arith.res = OkInt(q)
              ELSE arith.res.st = "ok" /\ arith.res.kind = "Float"


(***************************************************************************)
(* Properties of nested blocks (SpecNest)                                  *)
(***************************************************************************)
\* C11 -- when the consequence of an if returns Ok without a next_step (also
\* when it returned through an executed ask / respond inside it), its messages
\* and writes are merged into the enclosing accumulator, the enclosing block
\* stays in its loop and its next statement, if any, is evaluated.
ConsequenceDone ==
    /\ Len(stack) > 1
    /\ Top.via = "if"
    /\ Top.out = "ok"
    /\ Top.root.next_step = <<>>
MergedAndContinues ==
    ConsequenceDone =>
        /\ Len(stack') = Len(stack) - 1
        /\ Top'.blk = Caller.blk
        /\ Top'.root.messages = Caller.root.messages \o Top.root.messages
        /\ DOMAIN Top'.root.memories =
              DOMAIN Caller.root.memories \cup DOMAIN Top.root.memories
        /\ \A m \in DOMAIN Top.root.memories :
              Top'.root.memories[m] = Top.root.memories[m]
        /\ Top'.out = "run"
        /\ Top'.pc = Caller.pc + 1
        /\ Top'.pc <= Len(Top'.blk) => Evaluating'
FollowingEvaluated ==
    (Done /\ ret.st = "ok" /\ ret.root.next_step = <<>>) =>
        \A i \in 1..Len(evald) :
            (/\ evald[i][1] = 1
             /\ Node(evald[i][3]).t = "IfExpr"
             /\ evald[i][2] < Len(actions)) =>
                \E j \in (i + 1)..Len(evald) :
                    evald[j][1] = 1 /\ evald[j][2] = evald[i][2] + 1
C11_IfContinues == [](FollowingEvaluated) /\ [][MergedAndContinues]_vars
\* [if .. [ask [say "m1"]; say "b"]; say "b"] with no Event: the consequence
\* returned through its ask, and the say after the if was evaluated
C11_Witness ==
    /\ Done
    /\ event = NoEvent
    /\ actions = <<124, 80>>
    /\ ret.st = "ok"
    /\ ret.root.messages = <<TextMsg("m1"), TextMsg("b")>>
    /\ evald = <<<<1, 1, 124>>, <<2, 1, 114>>, <<3, 1, 81>>, <<1, 2, 80>>>>


\* C12 -- the messages of the returned accumulator are the messages of the
\* evaluated statements, in the order of their evaluation, each exactly once:
\* those before a nested block, then the nested block's, then the later ones.
\* While no activation has failed, the accumulators of the activations in
\* progress, outermost first, hold exactly these messages.
MsgsOfStmt(id) ==
    LET n == Node(id)
        a == match_reserved(n.s, n.x)
    IN  IF n.t = "Reserved" /\ n.s \notin {"ask", "respond"} /\ a.st = "ok"
        THEN a.msgs
        ELSE <<>>
RECURSIVE Produced(_)
Produced(log) ==
    IF log = <<>> THEN <<>>
    ELSE Produced(SubSeq(log, 1, Len(log) - 1)) \o MsgsOfStmt(log[Len(log)][3])
RECURSIVE StackMessages(_)
StackMessages(frames) ==
    IF frames = <<>> THEN <<>>
    ELSE StackMessages(SubSeq(frames, 1, Len(frames) - 1))
            \o frames[Len(frames)].root.messages
C12_MessageOrder ==
    /\ (stack # <<>> /\ \A i \in 1..Len(stack) : stack[i].out # "err") =>
            StackMessages(stack) = Produced(evald)
    /\ (Done /\ ret.st = "ok") => ret.root.messages = Produced(evald)
\* [say "b"; if .. [ask [say "m1"]; ..]; say "b"]: before, nested, after
C12_Witness ==
    /\ Done
    /\ event = NoEvent
    /\ actions = <<80, 124, 80>>
    /\ ret.st = "ok"
    /\ ret.root.messages = <<TextMsg("b"), TextMsg("m1"), TextMsg("b")>>


\* the statement whose nested block entry i of the history belongs to
Encloser(i) ==
    CHOOSE k \in 1..(i - 1) :
        /\ evald[k][1] = evald[i][1] - 1
        /\ \A l \in (k + 1)..(i - 1) : evald[l][1] # evald[i][1] - 1
IsGoto(i) == Node(evald[i][3]).t = "Goto"
InConsequence(i) == evald[i][1] > 1 /\ Node(evald[Encloser(i)][3]).t = "IfExpr"

\* C15 -- a goto executed in the consequence of an if halts the enclosing
\* blocks too: the merged accumulator keeps the goto's target, the enclosing
\* block evaluates nothing after the if, so at no depth is any statement
\* evaluated after that goto, and the result carries its target.
NestedGotoIsLast ==
    \A i \in 1..Len(evald) :
        (IsGoto(i) /\ InConsequence(i)) =>
            /\ i = Len(evald)
            /\ Done => (/\ ret.st = "ok"
                        /\ ret.root.next_step = <<Node(evald[i][3]).s>>)
StepMergedUpward ==
    (/\ Len(stack) > 1
     /\ Top.via = "if"
     /\ Top.out = "ok"
     /\ Top.root.next_step # <<>>) =>
        /\ Len(stack') = Len(stack) - 1
        /\ Top'.root.next_step = Top.root.next_step
        /\ ~Evaluating'
C15_NestedGotoHalts == [](NestedGotoIsLast) /\ [][StepMergedUpward]_vars
\* [if .. [if .. [goto "in"; say "b"]; say "m1"]; say "b"]: the goto, two
\* blocks down, is the last statement evaluated
C15_Witness ==
    /\ Done
    /\ actions = <<128, 80>>
    /\ ret.st = "ok"
    /\ ret.root.next_step = <<"in">>
    /\ ret.root.messages = <<>>
    /\ evald = <<<<1, 1, 128>>, <<2, 1, 122>>, <<3, 1, 132>>>>

\* C19 -- at most one goto is executed in a call of match_block, nested
\* blocks included; the returned next_step is the target of that goto (none
\* when no goto was reached); a nested accumulator with a next_step is never
\* merged into an accumulator that already has one.
Gotos == {i \in 1..Len(evald) : IsGoto(i)}
AtMostOneGoto == Cardinality(Gotos) <= 1
FirstGotoReturned ==
    (Done /\ ret.st = "ok") =>
        ret.root.next_step =
            IF Gotos = {} THEN <<>>
            ELSE <<Node(evald[CHOOSE i \in Gotos : \A j \in Gotos : i <= j][3]).s>>
NoStepOverridden ==
    (Len(stack) > 1 /\ Top.out = "ok" /\ Top.root.next_step # <<>>) =>
        Caller.root.next_step = <<>>
C19_SingleGoto == AtMostOneGoto /\ FirstGotoReturned /\ NoStepOverridden
\* [if .. [if .. [goto "in"; ..]; ..]; goto "next"]: the nested goto is the
\* only one executed and its target is returned
C19_Witness ==
    /\ Done
    /\ actions = <<128, 130>>
    /\ ret.st = "ok"
    /\ ret.root.next_step = <<"in">>
    /\ Cardinality(Gotos) = 1


\* C20 -- match_block leaves the Memory and the Event as they were given: a
\* remember only adds a write to the accumulator.  A statement evaluated
\* after a remember of a name and referring to that name (say "..{{name}}",
\* remember a = <name>, say memory.get(<name>), if <name> == ..) does what
\* the Memory of the turn makes it do: use the value the name had there, or
\* fail, or skip the if, when the name was in no scope.
InputsKept == memory' = memory /\ event' = event
RememberedBefore(nm) ==
    \E i \in 1..Len(evald) :
        Node(evald[i][3]).t = "Remember" /\ Node(evald[i][3]).s = nm
\* the value of a name in the Memory of the turn: metadata, current, past
GivenValue(nm) ==
    HeldBy(TurnMemory.metadata, nm) \o HeldBy(TurnMemory.current, nm)
        \o HeldBy(TurnMemory.past, nm)
SaysName(n, nm) ==
    /\ n.t = "Reserved" /\ n.s = "say"
    /\ Node(n.x).t = "ComplexLiteral"
    /\ Len(Node(n.x).b) = 2
    /\ Node(Node(n.x).b[1]).t = "LitExpr"
    /\ Node(Node(n.x).b[2]) = IdentExpr(nm)
RemembersName(n, nm) == n.t = "Remember" /\ Node(n.x) = IdentExpr(nm)
SaysCurrent(n, nm) ==
    /\ n.t = "Reserved" /\ n.s = "say"
    /\ Node(n.x).t = "BuilderExpr"
    /\ Node(Node(n.x).x) = IdentExpr("memory")
    /\ Node(Node(n.x).y) = FunctionExpr("get", Node(Node(n.x).y).x)
    /\ Node(Node(Node(n.x).y).x) = LitExpr("String", nm)
ComparesName(n, nm) ==
    /\ n.t = "IfExpr"
    /\ Node(n.x).t = "InfixExpr"
    /\ Node(Node(n.x).x) = IdentExpr(nm)
    /\ Node(Node(n.x).y).t = "LitExpr"
ReadsAsGiven ==
    \A nm \in Keys :
        (Evaluating /\ RememberedBefore(nm)) =>
            /\ SaysName(Stmt, nm) =>
                  IF GivenValue(nm) = <<>>
                  THEN OnlyTop([Top EXCEPT !.out = "err"])
                  ELSE OnlyTop([Top EXCEPT
                          !.root = add_message(Top.root,
                                      TextMsg(Node(Node(Stmt.x).b[1]).s
                                                 \o GivenValue(nm)[1])),
                          !.pc = Top.pc + 1])
            /\ RemembersName(Stmt, nm) =>
                  IF GivenValue(nm) = <<>>
                  THEN OnlyTop([Top EXCEPT !.out = "err"])
                  ELSE OnlyTop([Top EXCEPT
                          !.root = add_to_memory(Top.root, Stmt.s, GivenValue(nm)[1]),
                          !.pc = Top.pc + 1])
            /\ (SaysCurrent(Stmt, nm) /\ HeldBy(TurnMemory.current, nm) = <<>>) =>
                  OnlyTop([Top EXCEPT !.out = "err"])
            /\ (ComparesName(Stmt, nm) /\ GivenValue(nm) = <<>>) =>
                  OnlyTop([Top EXCEPT !.pc = Top.pc + 1])
C20_MemoryUntouched == [][InputsKept /\ ReadsAsGiven]_vars
\* [remember x = "b"; say "b{{x}}"]: the write is recorded and x is still
\* said with its value from the past scope
C20_Witness ==
    /\ Done
    /\ actions = <<149, 86>>
    /\ memory = TurnMemory
    /\ ret.st = "ok"
    /\ ret.root.memories["x"] = "b"
    /\ ret.root.messages = <<TextMsg("bp1")>>


(***************************************************************************)
(* Properties of builder paths and condition trees (SpecExpr)              *)
(***************************************************************************)
\* a builder path <scope>.get("key") or <scope>.first("key")
IsScopePath(n) ==
    /\ n.t = "BuilderExpr"
    /\ Node(n.x).t = "IdentExpr"
    /\ Node(n.x).s \in {"past", "memory", "metadata"}
    /\ Node(n.y).t = "FunctionExpr"
    /\ Node(n.y).s \in {"get", "first"}
    /\ Node(Node(n.y).x).t = "LitExpr"
    /\ Node(Node(n.y).x).k = "String"
PathKey(n) == Node(Node(n.y).x).s

\* C16 -- get and first on a scope that does not hold the key fail with an
\* ordinary error of the resolution, and a condition made of such a path is
\* false; neither aborts the process.
C16_MissingKeyIsError ==
    (/\ IsScopePath(Node(expr))
     /\ HeldBy(ScopeOf(Node(Node(expr).x).s), PathKey(Node(expr))) = <<>>) =>
        /\ resolved # NotResolved => resolved = Err
        /\ condition # NotEvaluated => condition = BOk(FALSE)

\* C17 -- a mixed node under `and` whose plain operand (literal, identifier
\* or builder path) is resolvable has the value of its infix sub-condition.
SubIdOf(n) == IF Node(n.x).t = "InfixExpr" THEN n.x ELSE n.y
C17_AndMixed ==
    (/\ condition # NotEvaluated
     /\ IsMixed(Node(expr), "And")
     /\ Node(PlainOf(Node(expr))).t \in {"LitExpr", "IdentExpr", "BuilderExpr"}
     /\ get_var_from_ident(PlainOf(Node(expr))).st = "ok") =>
        condition = valid_condition(SubIdOf(Node(expr)))

\* C18 -- a condition tree with an operand, anywhere in it, whose resolution
\* fails is false.
RECURSIVE HasUnresolvable(_)
HasUnresolvable(e) ==
    CASE Node(e).t = "InfixExpr" ->
            HasUnresolvable(Node(e).x) \/ HasUnresolvable(Node(e).y)
      [] Node(e).t \in {"IdentExpr", "BuilderExpr", "ComplexLiteral"} ->
            get_var_from_ident(e).st # "ok"
      [] OTHER -> FALSE
C18_FailureIsFalse ==
    (condition # NotEvaluated /\ HasUnresolvable(expr)) => condition = BOk(FALSE)


(***************************************************************************)
(* Properties of the component generator (SpecComp)                        *)
(***************************************************************************)
Aborted(msg) == outcome = [st |-> "panic", fault |-> msg]
\* a default_value rule of the field fetches the field itself
SelfFetching(key) ==
    \E i \in DOMAIN header[key].default_value :
        /\ header[key].default_value[i].object
        /\ header[key].default_value[i].get = key
\* the fields gen_generic_component resolves
ResolvedFields ==
    {skip_while_primary(keys(header))[i] :
        i \in DOMAIN skip_while_primary(keys(header))}
HandledKinds == {"Null", "Bool", "Number", "String", "Array", "Object"}

\* C13 (as stated) -- the generation of a schema with a field that has a
\* default_value rule fetching the field itself ends in the circular
\* dependency fault, with no result.
C13_SelfFetchIsCircular ==
    ((\E key \in DOMAIN header : SelfFetching(key)) /\ ~Generating) =>
        Aborted(CircularDependency)

\* a call of get_object on a key already in the set of the resolution ends the
\* generation with the circular dependency fault; no field is added
ReentryFaults ==
    (/\ Generating
     /\ calls # <<>>
     /\ Active.stage = "enter"
     /\ Active.key \in hashset) =>
        /\ Aborted(CircularDependency)'
        /\ calls' = <<>>
        /\ hashmap' = hashmap
\* no result once a resolved field fetches itself, and no step after a fault
NoResultOfSelfFetch ==
    /\ (\E key \in ResolvedFields : SelfFetching(key)) => outcome.st # "ok"
    /\ outcome.st = "panic" => calls = <<>>
\* the first resolved field, not required and of a handled kind, whose first
\* default_value rule fetches the field: the fault is the circular dependency
FirstRuleFetchesSelf ==
    LET key == Head(skip_while_primary(keys(header)))
    IN  /\ ~header[key].required
        /\ header[key].type \in HandledKinds
        /\ header[key].default_value # <<>>
        /\ header[key].default_value[1] = FetchRule(key)
\* C13 -- a call of get_object on a key already in the visited set of the
\* current top-level resolution aborts the whole generation with the circular
\* dependency fault; a schema in which a resolved field has a default_value
\* rule fetching the field itself never gives a result object, and the fault
\* is the circular dependency one when that rule is the first thing the
\* generation does (the field is the first resolved, not required, and of a
\* handled kind).
C13_ReentryAborts ==
    /\ []NoResultOfSelfFetch
    /\ []((FirstRuleFetchesSelf /\ ~Generating) => Aborted(CircularDependency))
    /\ [][ReentryFaults]_vars
\* "f" of kind String with the rules [set "a", fetch "f"]: the second call on
\* "f" faults, and nothing was inserted
C13_Witness ==
    /\ Aborted(CircularDependency)
    /\ header["f"].type = "String"
    /\ header["f"].default_value = <<SetRule(JString("a")), FetchRule("f")>>
    /\ hashset = {"f"}
    /\ hashmap = NoEntries
    /\ calls = <<>>

\* The fold of the rules, as the contract states it
FoldKinds == {"Bool", "String", "Array", "Object"}
NoValue == Json("None", FALSE, 0, "", <<>>, NoEntries)
Zero(kind) ==
    CASE kind = "Bool"   -> JBool(FALSE)
      [] kind = "String" -> JString("")
      [] kind = "Array"  -> JArray(<<>>)
      [] kind = "Object" -> JObject(NoEntries)
      [] OTHER           -> NoValue
Merge(kind, l, r) ==
    IF l.k # kind \/ r.k # kind THEN NoValue
    ELSE CASE kind = "Bool"   -> JBool(l.b \/ r.b)
           [] kind = "String" -> JString(l.s \o r.s)
           [] kind = "Array"  -> JArray(l.a \o r.a)
           [] kind = "Object" ->
                JObject([key \in DOMAIN l.o \cup DOMAIN r.o |->
                           IF key \in DOMAIN r.o THEN r.o[key] ELSE l.o[key]])
           [] OTHER           -> NoValue
\* the value of a field, fetched fields included; a chain of fetches that
\* ends is no longer than the number of fields
FetchDepth == Cardinality(DOMAIN header) + 1
RECURSIVE FoldOf(_, _)
RECURSIVE FoldFrom(_, _, _, _, _)
FoldFrom(kind, rules, i, acc, depth) ==
    IF i > Len(rules) THEN acc
    ELSE LET rule == rules[i]
             fetched == IF rule.get # ""
                        THEN Merge(kind, acc, FoldOf(rule.get, depth - 1))
                        ELSE acc
             literal == IF rule.set # JAbsent
                        THEN Merge(kind, fetched, rule.set)
                        ELSE fetched
         IN  FoldFrom(kind, rules, i + 1, literal, depth)
FoldOf(key, depth) ==
    IF depth = 0 THEN NoValue
    ELSE IF key \notin DOMAIN header THEN JNull
    ELSE FoldFrom(header[key].type,
                  header[key].default_value \o header[key].add_value,
                  1, Zero(header[key].type), depth)

\* C14 -- the value generated for a field (not required) of kind Bool,
\* String, Array or Object is the left fold, from the zero value of the kind,
\* of its default_value rules then its add_value rules, in list order, under
\* the merge of the kind.
C14_LeftFold ==
    /\ \A i \in DOMAIN calls :
          (/\ calls[i].stage = "done"
           /\ calls[i].key \in DOMAIN header
           /\ header[calls[i].key].type \in FoldKinds) =>
              /\ ~header[calls[i].key].required
              /\ calls[i].result = FoldOf(calls[i].key, FetchDepth)
    /\ \A key \in DOMAIN hashmap :
          header[key].type \in FoldKinds => hashmap[key] = FoldOf(key, FetchDepth)
\* "f" with default_value [fetch "g", set "a"] and add_value [set "b"], "g"
\* being "a" then "b": the value is "ab" \o "a" \o "b"
C14_Witness ==
    /\ Len(calls) = 1
    /\ Active.stage = "done"
    /\ Active.key = "f"
    /\ header["f"].type = "String"
    /\ header["f"].default_value = <<FetchRule("g"), SetRule(JString("a"))>>
    /\ header["f"].add_value = <<SetRule(JString("b"))>>
    /\ Active.result = JString("abab")

\* the fields a field fetches, by the rules of its two lists
Fetches(key) ==
    IF key \notin DOMAIN header THEN {}
    ELSE LET rules == header[key].default_value \o header[key].add_value
         IN  {rules[i].get : i \in {j \in DOMAIN rules :
                                        rules[j].object /\ rules[j].get # ""}}
RECURSIVE FetchedWithin(_, _)
FetchedWithin(from, n) ==
    IF n = 0 THEN from
    ELSE FetchedWithin(from \cup UNION {Fetches(key) : key \in from}, n - 1)
Reaches(key) == FetchedWithin(Fetches(key), Cardinality(DOMAIN header))
Acyclic == \A key \in DOMAIN header : key \notin Reaches(key)

\* C21 -- the generation of a schema whose fetch graph has no cycle never
\* ends in the circular dependency fault, also when a field fetches another
\* field more than once.
C21_AcyclicNeverCircular == Acyclic => ~Aborted(CircularDependency)

\* C22 -- gen_generic_component ends, with a result or a fault, for every
\* schema, cyclic ones included: within the resolution of one top-level field
\* the visited set never shrinks, every call of get_object adds a key that
\* was not in it or faults, and the calls that proceeded hold distinct keys of
\* the set, which holds only the top-level key and keys that are fetched.
VisitedGrows == calls # <<>> => hashset \subseteq hashset'
EnterAddsOrFaults ==
    (Generating /\ calls # <<>> /\ Active.stage = "enter") =>
        \/ outcome'.st = "panic" /\ calls' = <<>>
        \/ /\ Active.key \notin hashset
           /\ hashset' = hashset \cup {Active.key}
           /\ outcome' = outcome
Proceeded == {i \in DOMAIN calls : calls[i].stage # "enter"}
BoundedCalls ==
    /\ \A i \in Proceeded : calls[i].key \in hashset
    /\ \A i, j \in Proceeded : calls[i].key = calls[j].key => i = j
    /\ calls # <<>> =>
          hashset \subseteq {calls[1].key} \cup
                            UNION {Fetches(key) : key \in DOMAIN header}
C22_Terminates ==
    /\ []BoundedCalls
    /\ [][VisitedGrows /\ EnterAddsOrFaults]_vars
    /\ <>(outcome.st \in {"ok", "panic"})
\* "f" fetches "g" and "g" fetches "f": the generation ended, by the fault, with
\* two keys visited
C22_Witness ==
    /\ Aborted(CircularDependency)
    /\ header["f"].default_value = <<FetchRule("g")>>
    /\ header["g"].default_value = <<FetchRule("f")>>
    /\ hashset = {"f", "g"}

\* C23 -- a condition that is no infix expression is decided by its shape and
\* by whether it resolves: a literal is true, an identifier or a builder path
\* is true exactly when it resolves, and any other shape is false.
C23_ShapeDecides ==
    (condition # NotEvaluated /\ Node(expr).t # "InfixExpr") =>
        condition =
            BOk(CASE Node(expr).t = "LitExpr" -> TRUE
                  [] Node(expr).t \in {"IdentExpr", "BuilderExpr"} ->
                        get_var_from_ident(expr).st = "ok"
                  [] OTHER -> FALSE)

====
